---- MODULE Spec2Model ----
(***************************************************************************)
(* ExactCoverQuantumSolver (src/src/sudoku_nisq/exact_cover_solver.py):    *)
(* the construction of the Grover circuit for an Exact Cover instance and  *)
(* the analytic resource estimation.  Circuits are gate lists over named   *)
(* qubits; the classical blocks (counter, oracle, aux_circ) are executed   *)
(* on computational-basis settings.                                        *)
(***************************************************************************)
EXTENDS Integers, Sequences, FiniteSets, TLC

VARIABLES puzzle, self, pc, error, log, call, estimate, sim

vars == <<puzzle, self, pc, error, log, call, estimate, sim>>

\* ------------------------------------------------------------------ bounds
\* Largest number of subsets of an instance.
MaxS == 3
\* Largest universe of the instances whose every element may be covered.
MaxU == 2
\* Size of the one larger universe (register names U_1 and U_10 both exist);
\* its elements beyond the first MaxU are covered by no subset.
BigU == 11
\* Largest solution count of a puzzle or of a caller.
MaxSol == 2
\* Largest explicit num_iterations a caller supplies.
MaxIter == 1

\* ---------------------------------------------------------------- helpers
Min(a, b) == IF a < b THEN a ELSE b

Pow2(n) == 2 ^ n

\* The elements of a finite set of integers in ascending order.
SetToSeq(S) ==
    [k \in 1..Cardinality(S) |-> CHOOSE x \in S : Cardinality({y \in S : y < x}) = k - 1]

RECURSIVE Flatten(_)
Flatten(ss) ==
    IF ss = <<>> THEN <<>>
    ELSE IF Len(ss) = 1 THEN ss[1]
    ELSE Flatten(SubSeq(ss, 1, Len(ss) \div 2))
         \o Flatten(SubSeq(ss, (Len(ss) \div 2) + 1, Len(ss)))

RECURSIVE Repeat(_, _)
Repeat(s, n) == IF n <= 0 THEN <<>> ELSE s \o Repeat(s, n - 1)

Range(s) == {s[i] : i \in 1..Len(s)}

\* ------------------------------------------------- names and unit ordering
DigitChars == <<"0", "1", "2", "3", "4", "5", "6", "7", "8", "9">>

RECURSIVE Str(_)
\* str(i) of a non-negative integer, as a sequence of characters.
Str(i) ==
    IF i < 10 THEN <<DigitChars[i + 1]>>
    ELSE Str(i \div 10) \o <<DigitChars[(i % 10) + 1]>>

\* f"U_{i}"
ULabel(i) == <<"U", "_">> \o Str(i)

\* pytket Qubit(name, index) / Bit(name, index)
Qubit(name, j) == [reg_name |-> name, index |-> j]

\* str.startswith
StartsWith(name, prefix) ==
    /\ Len(name) >= Len(prefix)
    /\ SubSeq(name, 1, Len(prefix)) = prefix

\* Character codes of the characters register names are made of.
Ord(c) ==
    CASE c = "S" -> 83
      [] c = "U" -> 85
      [] c = "_" -> 95
      [] c = "a" -> 97
      [] c = "c" -> 99
      [] c = "n" -> 110
      [] OTHER -> 47 + (CHOOSE d \in 1..10 : DigitChars[d] = c)

RECURSIVE StrLess(_, _)
\* Lexicographic order of two names.
StrLess(x, y) ==
    IF y = <<>> THEN FALSE
    ELSE IF x = <<>> THEN TRUE
    ELSE IF Ord(Head(x)) # Ord(Head(y)) THEN Ord(Head(x)) < Ord(Head(y))
    ELSE StrLess(Tail(x), Tail(y))

\* The order of unit ids: by register name, then by index.
UnitLess(q, r) ==
    \/ StrLess(q.reg_name, r.reg_name)
    \/ q.reg_name = r.reg_name /\ q.index < r.index

\* The units qs in ascending order.
SortUnits(qs) == SortSeq(qs, UnitLess)

\* --------------------------------------------------------------- circuits
\* Circuit(): no units, no gates.  The qubits are kept in the order they were
\* added, each once.
EmptyCircuit == [qubits |-> <<>>, bits |-> {}, gates |-> <<>>]

Gate(op, args) == [op |-> op, args |-> args]

\* Circuit.add_gate / Circuit.H / Circuit.X / Circuit.Measure
AddGate(c, op, args) == [c EXCEPT !.gates = Append(@, Gate(op, args))]

AddGates(c, gs) == [c EXCEPT !.gates = @ \o gs]

\* The units of qs that are not among have.
NewUnits(have, qs) ==
    LET IsNew(q) == \A i \in 1..Len(have) : have[i] # q
    IN  SelectSeq(qs, IsNew)

\* Circuit.append: sequential composition; units are unified by id and the
\* units the argument alone has are added.
AppendCircuit(c, o) ==
    [qubits |-> c.qubits \o NewUnits(c.qubits, o.qubits),
     bits   |-> c.bits \cup o.bits,
     gates  |-> c.gates \o o.gates]

\* Circuit.qubits: the qubits in the order of unit ids.
QubitsOf(c) == SortUnits(c.qubits)

ReverseSeq(s) == [i \in 1..Len(s) |-> s[Len(s) + 1 - i]]

\* A dagger that keeps the order of the gates.
DaggerSameOrder(c) == c

\* Circuit.dagger on a circuit of CnX gates: the reverse order, each gate its
\* own adjoint.
Dagger(c) == [c EXCEPT !.gates = ReverseSeq(@)]

\* ------------------------------------------------------------ arithmetic
\* math.ceil(math.log2(n)) for n >= 1
CeilLog2(n) == CHOOSE k \in 0..n : Pow2(k) >= n /\ \A j \in 0..(k - 1) : Pow2(j) < n

\* floor((pi / 4) * sqrt(2 ** s / m)) for m >= 1: the largest k with
\* 16 k^2 m <= pi^2 2^s, pi^2 = 9.8696044...
GroverIterations(s, m) ==
    CHOOSE k \in 0..Pow2(s) :
        /\ 16 * k * k * m * 10000 <= 98696 * Pow2(s)
        /\ 16 * (k + 1) * (k + 1) * m * 10000 > 98696 * Pow2(s)

\* list.index
IndexOf(seq, e) == (CHOOSE i \in 1..Len(seq) : seq[i] = e /\ \A j \in 1..(i - 1) : seq[j] # e) - 1


\* -------------------------------------------------------------- __init__
\* The attributes of a solver that has not been constructed.
NoSelf ==
    [universe |-> <<>>, subsets |-> <<>>, num_solutions |-> <<>>,
     u_size |-> 0, s_size |-> 0, b |-> 0, has_circuits |-> FALSE,
     main_circuit |-> EmptyCircuit, oracle |-> EmptyCircuit,
     diffuser |-> EmptyCircuit, count_circuit |-> EmptyCircuit,
     count_circuit_dag |-> EmptyCircuit, aux_circ |-> EmptyCircuit,
     s_qubits |-> <<>>, u_qubits |-> <<>>]

\* The ancilla, Qubit("anc").
anc == Qubit(<<"a", "n", "c">>, 0)

\* Lines 70-71: the attribute num_solutions after __init__, <<>> when the
\* attribute is not set.  The base class is handed no num_solutions.
InitNumSolutions(arg, pz) == IF arg = <<>> THEN <<pz.num_solutions>> ELSE <<>>

\* Lines 59-75, for a recognized encoding.
InitSelf(pz, arg) ==
    [NoSelf EXCEPT
        !.universe = pz.universe,
        !.subsets = pz.subsets,
        !.num_solutions = InitNumSolutions(arg, pz),
        !.u_size = Len(pz.universe),
        !.s_size = Len(pz.subsets),
        !.b = CeilLog2(Len(pz.subsets))]

\* -------------------------------------------------------- _build_circuit
\* Line 137: the subset register.
SubsetQubits(s_size) == [i \in 1..s_size |-> Qubit(<<"S">>, i - 1)]

\* Registers U_i[0..b], as the comment of lines 153-156 has them.
CounterQubitsInclusive(u_size, b) ==
    Flatten([i \in 1..u_size |-> [j \in 1..(b + 1) |-> Qubit(ULabel(i - 1), j - 1)]])

\* Lines 157-161: the counter registers, in universe order.
CounterQubits(u_size, b) ==
    Flatten([i \in 1..u_size |-> [j \in 1..b |-> Qubit(ULabel(i - 1), j - 1)]])

\* Lines 140-145 and 164-176: the main circuit before the assembly.
PreparedMain(sq, uq) ==
    [qubits |-> sq \o uq \o <<anc>>,
     bits   |-> {},
     gates  |-> [i \in 1..Len(sq) |-> Gate("H", <<sq[i]>>)]
                \o <<Gate("X", <<anc>>), Gate("H", <<anc>>)>>]

\* Lines 129-176 with the registers sq and uq.
AllocateRegisters(s, sq, uq) ==
    [s EXCEPT
        !.has_circuits = TRUE,
        !.main_circuit = PreparedMain(sq, uq),
        !.oracle = [EmptyCircuit EXCEPT !.qubits = uq \o <<anc>>],
        !.diffuser = [EmptyCircuit EXCEPT !.qubits = sq],
        !.count_circuit = [EmptyCircuit EXCEPT !.qubits = sq \o uq],
        !.count_circuit_dag = EmptyCircuit,
        !.aux_circ = [EmptyCircuit EXCEPT !.qubits = sq \o uq \o <<anc>>],
        !.s_qubits = sq,
        !.u_qubits = uq]

\* Lines 129-176: the circuits, the registers, the initial superposition and
\* the preparation of the ancilla.
AllocateCircuits(s) ==
    AllocateRegisters(s, SubsetQubits(s.s_size), CounterQubits(s.u_size, s.b))

\* -------------------------------------------------------- _build_counter
\* Line 207: the qubits the comprehension selects for the label U_i.
CounterRegister(qubits, i) ==
    LET InRegister(q) == StartsWith(q.reg_name, ULabel(i))
    IN  SelectSeq(qubits, InRegister)

\* Lines 202-203 and 208-210: the lists S_list grows through.
GrowingLists(j, register) ==
    [k \in 1..Len(register) |-> <<Qubit(<<"S">>, j)>> \o SubSeq(register, 1, k)]

\* Lines 202-210: the qubit lists of one (subset j, element) pair.
PairLists(universe, qubits, j, elementU) ==
    GrowingLists(j, CounterRegister(qubits, IndexOf(universe, elementU)))

\* Lines 200-211: q_list of subset j, which covers cov.
SubsetLists(universe, qubits, j, cov) ==
    Flatten([e \in 1..Len(cov) |-> PairLists(universe, qubits, j, cov[e])])

\* The lists left in the order they were generated in.
ReversedListsKept(q_list) == q_list

\* Lines 216-219: each subset's lists are reversed.
ReversedLists(q_list) == ReverseSeq(q_list)

\* Lines 222-224: one CnX per list.
CnXGates(lists) == [g \in 1..Len(lists) |-> Gate("CnX", lists[g])]

\* Lines 196-224: the gates _build_counter adds to a count_circuit whose
\* qubits are `qubits`, in the order of Circuit.qubits.
CounterGates(universe, subsets, qubits) ==
    CnXGates(Flatten([j \in 1..Len(subsets) |->
        ReversedLists(SubsetLists(universe, qubits, j - 1, subsets[j]))]))

\* Lines 224-227: count_circuit with the gates, and its dagger.
WithCounter(s, cc) == [s EXCEPT !.count_circuit = cc, !.count_circuit_dag = Dagger(cc)]

\* Lines 181-227.
BuildCounter(s) ==
    WithCounter(s, AddGates(s.count_circuit,
        CounterGates(s.universe, s.subsets, QubitsOf(s.count_circuit))))

\* --------------------------------------------------------- _build_oracle
\* An X on every counter qubit.
OracleFlippedAll(q) == TRUE

\* Lines 236 and 248: the qubits that get an X.
OracleFlipped(q) == q.index # 0

\* Lines 235-237 and 247-249.
XGates(qs) == [i \in 1..Len(qs) |-> Gate("X", <<qs[i]>>)]

\* Lines 235-249: the gates of one call.
OracleGates(u_qubits) ==
    XGates(SelectSeq(u_qubits, OracleFlipped))
    \o <<Gate("CnX", Append(u_qubits, anc))>>
    \o XGates(SelectSeq(u_qubits, OracleFlipped))

\* Lines 229-249.
BuildOracle(s) == [s EXCEPT !.oracle = AddGates(@, OracleGates(s.u_qubits))]

\* ------------------------------------------------------- _build_diffuser
\* Lines 255-265: the gates of one call.
DiffuserGates(sq) ==
    Flatten([i \in 1..Len(sq) |-> <<Gate("H", <<sq[i]>>), Gate("X", <<sq[i]>>)>>])
    \o <<Gate("CnZ", sq)>>
    \o Flatten([i \in 1..Len(sq) |-> <<Gate("X", <<sq[i]>>), Gate("H", <<sq[i]>>)>>])

\* Lines 251-265.
BuildDiffuser(s) == [s EXCEPT !.diffuser = AddGates(@, DiffuserGates(s.s_qubits))]

\* ---------------------------------------------------- _assemble_aux_circ
\* Lines 273-275.
AppendBlocks(s) ==
    [s EXCEPT !.aux_circ =
        AppendCircuit(AppendCircuit(AppendCircuit(@, s.count_circuit), s.oracle),
                      s.count_circuit_dag)]

\* Lines 267-275.
AssembleAuxCirc(s) == AppendBlocks(BuildOracle(BuildCounter(s)))

\* ----------------------------------------- _assemble_full_circuit_w_meas
\* Lines 291-293.
RECURSIVE AppendIterations(_, _, _)
AppendIterations(main, s, n) ==
    IF n <= 0 THEN main
    ELSE AppendIterations(AppendCircuit(AppendCircuit(main, s.aux_circ), s.diffuser), s, n - 1)

\* Lines 296-297: the measurement of each subset qubit into the bit of its index.
Measurements(sq) ==
    [i \in 1..Len(sq) |-> Gate("Measure", <<sq[i], Qubit(<<"c">>, sq[i].index)>>)]

\* Lines 295-297 on a circuit without a register c.
AddMeasurements(main, s) ==
    [main EXCEPT !.bits = @ \cup {Qubit(<<"c">>, i - 1) : i \in 1..s.s_size},
                 !.gates = @ \o Measurements(s.s_qubits)]

\* Line 288: the exception of the default iteration count, "" when there is none.
DefaultIterationsError(s) ==
    IF s.num_solutions = <<>> THEN "AttributeError"
    ELSE IF s.num_solutions[1] = 0 THEN "ZeroDivisionError"
    ELSE IF s.num_solutions[1] < 0 THEN "ValueError"
    ELSE ""

\* Lines 295-297 on the circuit `looped`.  regRaises: whether add_c_register
\* raises when the circuit has a register c already.
Measured(s, looped, regRaises, lg) ==
    IF looped.bits # {} /\ regRaises
    THEN [self |-> [s EXCEPT !.main_circuit = looped], error |-> "RuntimeError", log |-> lg]
    ELSE [self |-> [s EXCEPT !.main_circuit = AddMeasurements(looped, s)],
          error |-> "", log |-> lg]

\* Lines 287-297.  num_iterations is <<>> for None.
Iterated(s, num_iterations, regRaises) ==
    IF num_iterations # <<>>
    THEN Measured(s, AppendIterations(s.main_circuit, s, num_iterations[1]), regRaises, <<>>)
    ELSE IF DefaultIterationsError(s) # ""
    THEN [self |-> s, error |-> DefaultIterationsError(s),
          log |-> IF s.num_solutions = <<>> THEN <<>> ELSE <<"arithmetic">>]
    ELSE Measured(s, AppendIterations(s.main_circuit, s,
                        GroverIterations(s.s_size, s.num_solutions[1])),
                  regRaises, <<"arithmetic">>)

\* Lines 277-297 on a solver whose circuits exist.
AssembleFull(s, num_iterations, regRaises) ==
    Iterated(BuildDiffuser(AssembleAuxCirc(s)), num_iterations, regRaises)

\* --------------------------------------------------- resource_estimation
RECURSIVE SumSeq(_)
SumSeq(ns) == IF ns = <<>> THEN 0 ELSE Head(ns) + SumSeq(Tail(ns))

\* Lines 104-106.
EstCounterGates(s) == SumSeq([j \in 1..Len(s.subsets) |-> Len(s.subsets[j]) * s.b])

\* Line 107.
EstOracleGates(s) == 1 + 2 * ((s.u_size - 1) * s.b)

\* Line 108.
EstDiffuserGates(s) == 1 + 4 * s.s_size

\* Lines 102-103.
EstPrepareGates(s) == s.s_size + 2

\* Line 99.
EstQubits(s) == s.s_size + s.u_size * s.b + 1

\* Lines 87-96: the exception of the iteration count, "" when there is none.
\* log(0) is -inf and the log of a negative number is complex: the conversion
\* to int of line 96 is what fails.
EstimationError(s) ==
    IF s.num_solutions = <<>> THEN "AttributeError"
    ELSE IF s.num_solutions[1] <= 0 THEN "LibraryError"
    ELSE ""

\* Lines 77-117 for num_solutions >= 1: the record returned (depth is None).
EstimateRecord(s, num_iterations) ==
    [n_qubits |-> EstQubits(s),
     MCX_gates |-> num_iterations * (EstOracleGates(s) + 2 * EstCounterGates(s)),
     n_gates |-> EstPrepareGates(s)
                 + num_iterations * (EstOracleGates(s) + 2 * EstCounterGates(s))
                 + num_iterations * EstDiffuserGates(s),
     depth |-> <<>>]

\* Lines 77-117 for num_solutions >= 1.
ResourceEstimate(s) == EstimateRecord(s, GroverIterations(s.s_size, s.num_solutions[1]))

\* ---------------------------------------------- execution on basis states
Flip(bits, q) == [bits EXCEPT ![q] = 1 - @]

\* One gate on a computational-basis setting: X flips its qubit, CnX flips its
\* last qubit when all the others hold 1.
ApplyGate(bits, g) ==
    CASE g.op = "X" -> Flip(bits, g.args[1])
      [] g.op = "CnX" ->
            IF \A k \in 1..(Len(g.args) - 1) : bits[g.args[k]] = 1
            THEN Flip(bits, g.args[Len(g.args)])
            ELSE bits

RECURSIVE RunGates(_, _)
\* The gates in order on a setting: the first half, then the second half on
\* its result. A setting of no qubits is left as it is.
RunGates(gs, bits) ==
    IF DOMAIN bits = {} \/ gs = <<>> THEN bits
    ELSE IF Len(gs) = 1 THEN ApplyGate(bits, gs[1])
    ELSE RunGates(SubSeq(gs, (Len(gs) \div 2) + 1, Len(gs)),
                  RunGates(SubSeq(gs, 1, Len(gs) \div 2), bits))

\* The value of the b qubits named U_i, qubit index 0 least significant.
RegisterValue(bits, i, b) ==
    SumSeq([k \in 1..b |-> bits[Qubit(ULabel(i), k - 1)] * Pow2(k - 1)])

\* --------------------------------------------------------------- inputs
\* The elements a subset may cover, each as an ascending list.
Covers(u) == {SetToSeq(c) : c \in SUBSET (1..Min(u, MaxU))}

USizes == (1..MaxU) \cup {BigU}

Puzzles ==
    UNION {
        [universe : {[i \in 1..u |-> i]},
         subsets : [1..n -> Covers(u)],
         num_solutions : (-1)..MaxSol]
        : <<u, n>> \in USizes \X (1..MaxS)}

Encodings == {"simple", "pattern", "other"}

NumSolutionsArgs == {<<>>} \cup {<<n>> : n \in 1..MaxSol}

NoCall == [op |-> "", num_solutions |-> <<>>, num_iterations |-> <<>>]

\* ----------------------------------------------------------------- state
Init ==
    /\ puzzle \in Puzzles
    /\ self = NoSelf
    /\ pc = "start"
    /\ error = ""
    /\ log = <<>>
    /\ call = NoCall
    /\ estimate = <<>>
    /\ sim = <<>>

\* ExactCoverQuantumSolver(puzzle, encoding=..., num_solutions=...)
Construct(encoding, arg) ==
    /\ pc = "start"
    /\ call' = [NoCall EXCEPT !.op = "init", !.num_solutions = arg]
    /\ IF encoding \in {"simple", "pattern"}
       THEN /\ self' = InitSelf(puzzle, arg)
            /\ pc' = "constructed"
            /\ error' = ""
       ELSE /\ self' = [NoSelf EXCEPT !.universe = puzzle.universe]
            /\ pc' = "construct_error"
            /\ error' = "ValueError"
    /\ log' = <<>>
    /\ UNCHANGED <<puzzle, estimate, sim>>

Constructed == pc \in {"constructed", "built", "build_error", "reassembled"}

\* solver.resource_estimation()
ResourceEstimation ==
    /\ Constructed
    /\ call' = [NoCall EXCEPT !.op = "resource_estimation"]
    /\ error' = EstimationError(self)
    /\ log' = IF self.num_solutions = <<>> THEN <<"raise">>
              ELSE IF EstimationError(self) # "" THEN <<"arithmetic", "raise">>
              ELSE <<"arithmetic">>
    /\ estimate' = IF EstimationError(self) = "" THEN <<ResourceEstimate(self)>> ELSE <<>>
    /\ sim' = <<>>
    /\ UNCHANGED <<puzzle, self, pc>>

\* The outcome r of an assembly becomes the solver's state.
Returns(r, before) ==
    /\ self' = r.self
    /\ error' = r.error
    /\ log' = before \o r.log \o (IF r.error = "" THEN <<>> ELSE <<"raise">>)

\* solver._build_circuit()
BuildCircuit ==
    /\ pc = "constructed"
    /\ Returns(AssembleFull(AllocateCircuits(self), <<>>, TRUE), <<"allocate">>)
    /\ pc' = IF error' = "" THEN "built" ELSE "build_error"
    /\ call' = [NoCall EXCEPT !.op = "build"]
    /\ estimate' = <<>>
    /\ sim' = <<>>
    /\ UNCHANGED puzzle

\* solver._assemble_full_circuit_w_meas(k): the only way to supply an explicit
\* num_iterations.  One such call per solver.
AssembleOverride(k, regRaises) ==
    /\ pc \in {"constructed", "built", "build_error"}
    /\ call' = [NoCall EXCEPT !.op = "assemble", !.num_iterations = <<k>>]
    /\ IF self.has_circuits
       THEN Returns(AssembleFull(self, <<k>>, regRaises), <<>>)
       ELSE /\ self' = self
            /\ error' = "AttributeError"
            /\ log' = <<"raise">>
    /\ pc' = "reassembled"
    /\ estimate' = <<>>
    /\ sim' = <<>>
    /\ UNCHANGED puzzle

\* The basis settings of the subset register.
Selections == [0..(self.s_size - 1) -> {0, 1}]

\* A setting of the qubits Q: S[j] = sel[j], every other qubit 0.
BasisSetting(Q, sel) ==
    [q \in Q |-> IF q.reg_name = <<"S">> THEN sel[q.index] ELSE 0]

\* The blocks of s executed on the setting input.
BlocksRun(s, input) ==
    [kind |-> "blocks", input |-> input,
     counted |-> RunGates(s.count_circuit.gates, input),
     uncomputed |-> RunGates(s.count_circuit.gates \o s.count_circuit_dag.gates, input),
     out |-> RunGates(s.aux_circ.gates, input)]

\* Execute the blocks of a built solver on a selection of subsets, counters
\* and ancilla at 0: count_circuit (counted), then count_circuit_dag
\* (uncomputed), and aux_circ as assembled (out).
SimulateBlocks(sel) ==
    /\ pc = "built"
    /\ call.op = "build"
    /\ sim' = <<BlocksRun(self, BasisSetting(Range(self.aux_circ.qubits), sel))>>
    /\ call' = [NoCall EXCEPT !.op = "simulate"]
    /\ estimate' = <<>>
    /\ UNCHANGED <<puzzle, self, pc, error, log>>

\* The values of the counter registers the oracle is executed on: any value
\* in each of the first MaxU registers, one common value in the others.
OracleValues ==
    {[i \in 0..(self.u_size - 1) |-> IF i < MaxU THEN wt[1][i] ELSE wt[2]] :
        wt \in [0..(Min(self.u_size, MaxU) - 1) -> 0..(Pow2(self.b) - 1)]
               \X (0..(Pow2(self.b) - 1))}

\* The setting in which register U_i holds vals[i] and the ancilla 0.
OracleSetting(Q, vals) ==
    [q \in Q |-> IF q = anc THEN 0
                 ELSE LET i == CHOOSE i \in DOMAIN vals : ULabel(i) = q.reg_name
                      IN  (vals[i] \div Pow2(q.index)) % 2]

\* The oracle of s executed on the setting input.
OracleRun(s, input) ==
    [kind |-> "oracle", input |-> input, counted |-> input, uncomputed |-> input,
     out |-> RunGates(s.oracle.gates, input)]

\* Execute oracle on a setting of the counter registers.
SimulateOracle(vals) ==
    /\ pc = "built"
    /\ call.op = "build"
    /\ sim' = <<OracleRun(self, OracleSetting(Range(self.oracle.qubits), vals))>>
    /\ call' = [NoCall EXCEPT !.op = "simulate"]
    /\ estimate' = <<>>
    /\ UNCHANGED <<puzzle, self, pc, error, log>>

\* --------------------------------------------------------- specifications
\* The life of a solver: construction, estimation, the build, and an explicit
\* call of the assembly.
Next ==
    \/ \E encoding \in Encodings, arg \in NumSolutionsArgs : Construct(encoding, arg)
    \/ ResourceEstimation
    \/ BuildCircuit
    \/ \E k \in 0..MaxIter, regRaises \in BOOLEAN : AssembleOverride(k, regRaises)

Spec == Init /\ [][Next]_vars

\* ExactCoverQuantumSolver(puzzle)
ConstructDefault == Construct("simple", <<>>)

\* A solver of a puzzle with one solution: estimated, built, and its blocks
\* executed on every selection of subsets.
InitBlocks == Init /\ puzzle.num_solutions = 1

NextBlocks ==
    \/ ConstructDefault
    \/ ResourceEstimation
    \/ BuildCircuit
    \/ \E sel \in Selections : SimulateBlocks(sel)

SpecBlocks == InitBlocks /\ [][NextBlocks]_vars

\* The oracle of a built solver executed on the values of the counter
\* registers.  The oracle reads u_size and b alone: one puzzle per shape.
InitOracle ==
    /\ Init
    /\ puzzle.num_solutions = 1
    /\ \A j \in 1..Len(puzzle.subsets) : puzzle.subsets[j] = <<>>

NextOracle ==
    \/ ConstructDefault
    \/ BuildCircuit
    \/ \E vals \in OracleValues : SimulateOracle(vals)

SpecOracle == InitOracle /\ [][NextOracle]_vars

\* ------------------------------------------------------------- properties
\* The simulation result, when the last call was one of kind `kind`.
Ran(kind) == sim # <<>> /\ sim[1].kind = kind

\* The selection of subsets of a setting.
SelectionOf(bits) == [j \in 0..(self.s_size - 1) |-> bits[Qubit(<<"S">>, j)]]

\* The subsets (1-based) selected in sel that cover element e.
Covering(sel, e) ==
    {j \in 1..Len(puzzle.subsets) : sel[j - 1] = 1 /\ e \in Range(puzzle.subsets[j])}

\* The selected subsets cover every element of the universe exactly once.
IsExactCover(sel) ==
    \A e \in Range(puzzle.universe) : Cardinality(Covering(sel, e)) = 1

CounterQubitSet == Range(self.u_qubits)

SubsetQubitSet == Range(self.s_qubits)

\* C1: count_circuit followed by count_circuit_dag, on every setting of the
\* subset register with the counters at 0, leaves every counter qubit at 0 and
\* the subset register as it was.
C1_UncomputationRoundTrip ==
    Ran("blocks") =>
        /\ \A q \in CounterQubitSet : sim[1].uncomputed[q] = 0
        /\ \A q \in SubsetQubitSet : sim[1].uncomputed[q] = sim[1].input[q]

\* A round trip through a counter of two bits that held 2 or more in between.
C1_Witness ==
    /\ Ran("blocks")
    /\ self.b = 2
    /\ \E i \in 0..(self.u_size - 1) : RegisterValue(sim[1].counted, i, self.b) >= 2
    /\ \A q \in CounterQubitSet : sim[1].uncomputed[q] = 0

\* Whether the oracle flipped the ancilla.
OracleFlips == sim[1].out[anc] # sim[1].input[anc]

OracleRestores == \A q \in CounterQubitSet : sim[1].out[q] = sim[1].input[q]

\* C2 as stated: the oracle flips the ancilla exactly when every counter
\* register holds a value other than 0, and restores the counter qubits.
C2_FlipsIffAllNonzero ==
    Ran("oracle") =>
        /\ OracleFlips <=>
              \A i \in 0..(self.u_size - 1) : RegisterValue(sim[1].input, i, self.b) # 0
        /\ OracleRestores

\* C2 amended: the oracle flips the ancilla exactly when in every counter
\* register qubit 0 holds 1 and every other qubit holds 0 (for b >= 1: every
\* register holds exactly 1; for b = 0 there is no counter qubit and the
\* ancilla is always flipped), and restores the counter qubits.
C2_FlipsIffAllOne ==
    Ran("oracle") =>
        /\ OracleFlips <=>
              \A q \in CounterQubitSet :
                  sim[1].input[q] = (IF q.index = 0 THEN 1 ELSE 0)
        /\ self.b >= 1 =>
              (OracleFlips <=>
                  \A i \in 0..(self.u_size - 1) :
                      RegisterValue(sim[1].input, i, self.b) = 1)
        /\ self.b = 0 => OracleFlips
        /\ OracleRestores

\* The oracle flipped the ancilla on two-bit registers that all hold 1.
C2_Witness ==
    /\ Ran("oracle")
    /\ self.b = 2
    /\ self.u_size >= 2
    /\ OracleFlips
    /\ \A i \in 0..(self.u_size - 1) : RegisterValue(sim[1].input, i, self.b) = 1

\* C3: a num_solutions of 0 or less is rejected with a configuration error
\* before any arithmetic and before any allocation, by the build and by
\* resource_estimation.
C3_NonPositiveRejectedFirst ==
    (/\ call.op \in {"build", "resource_estimation"}
     /\ self.num_solutions # <<>>
     /\ self.num_solutions[1] <= 0)
    => (error = "ConfigurationError" /\ log = <<"raise">>)

\* C4: after construction the solver holds the caller's num_solutions when one
\* was given and the puzzle's otherwise.
C4_HoldsNumSolutions ==
    (pc = "constructed" /\ call.op = "init") =>
        self.num_solutions =
            (IF call.num_solutions # <<>> THEN call.num_solutions
             ELSE <<puzzle.num_solutions>>)

\* The registers and the blocks a single build of the puzzle produces.
OneCounter ==
    CounterGates(puzzle.universe, puzzle.subsets,
                 QubitsOf([EmptyCircuit EXCEPT !.qubits = self.s_qubits \o self.u_qubits]))

OneIteration ==
    OneCounter \o OracleGates(self.u_qubits) \o ReverseSeq(OneCounter)
    \o DiffuserGates(self.s_qubits)

\* C5: with an explicit num_iterations k the circuit is the preparation, k
\* times Counter, Oracle, Counter-inverse, Diffuser, and the measurements last,
\* on the qubits allocated.
C5_OverrideStructure ==
    call.op = "assemble" =>
        /\ error = ""
        /\ self.main_circuit.qubits = self.s_qubits \o self.u_qubits \o <<anc>>
        /\ self.main_circuit.gates =
              PreparedMain(self.s_qubits, self.u_qubits).gates
              \o Repeat(OneIteration, call.num_iterations[1])
              \o Measurements(self.s_qubits)

C7_CounterHoldsCount ==
    Ran("blocks") =>
        \A i \in 0..(self.u_size - 1) :
            RegisterValue(sim[1].counted, i, self.b)
                = Cardinality(Covering(SelectionOf(sim[1].input), puzzle.universe[i + 1]))

\* C8: every gate of count_circuit is controlled on one subset qubit S[j] and
\* acts besides on qubits of the register of one element that subset covers,
\* and there are b gates for each (subset, element) pair.
C8_IncrementsStayInRegister ==
    pc = "built" =>
        /\ Len(self.count_circuit.gates)
              = SumSeq([j \in 1..Len(puzzle.subsets) |-> Len(puzzle.subsets[j]) * self.b])
        /\ \A g \in Range(self.count_circuit.gates) :
              \E j \in 1..Len(puzzle.subsets), e \in 1..Len(puzzle.universe) :
                  /\ puzzle.universe[e] \in Range(puzzle.subsets[j])
                  /\ g.args[1] = Qubit(<<"S">>, j - 1)
                  /\ \A k \in 2..Len(g.args) : g.args[k].reg_name = ULabel(e - 1)

\* C9: for s_size >= 2, aux_circ flips the ancilla exactly on the selections
\* that are exact covers, and leaves the subset register and the counters as
\* they were.
C9_AuxMarksExactCovers ==
    (Ran("blocks") /\ self.s_size >= 2) =>
        /\ (sim[1].out[anc] = 1) <=> IsExactCover(SelectionOf(sim[1].input))
        /\ \A q \in CounterQubitSet \cup SubsetQubitSet : sim[1].out[q] = sim[1].input[q]

\* An exact cover by two of three subsets, marked.
C9_Witness ==
    /\ Ran("blocks")
    /\ self.s_size = 3
    /\ self.u_size = 2
    /\ sim[1].out[anc] = 1
    /\ Cardinality({j \in 0..2 : sim[1].input[Qubit(<<"S">>, j)] = 1}) = 2
    /\ IsExactCover(SelectionOf(sim[1].input))

\* C10: the gate counts of resource_estimation are those of the blocks built:
\* counter, oracle, diffuser, and the gates before the first iteration.
C10_EstimatesMatchBuild ==
    pc = "built" =>
        /\ EstCounterGates(self) = Len(self.count_circuit.gates)
        /\ EstOracleGates(self) = Len(self.oracle.gates)
        /\ EstDiffuserGates(self) = Len(self.diffuser.gates)
        /\ EstPrepareGates(self) = Len(PreparedMain(self.s_qubits, self.u_qubits).gates)

====
